---- MODULE Spec2Model ----
(***************************************************************************)
(* A model of the context-propagation core of opentelemetry-api:           *)
(* identifiers, trace-state validation and builder, span context and       *)
(* resource merge.                                                         *)
(*                                                                         *)
(* Strings are sequences of Unicode code points.  Option<T> is a sequence  *)
(* of length 0 (None) or 1 (Some).  A panicking call is a result record    *)
(* with ok = FALSE.                                                        *)
(***************************************************************************)
EXTENDS Integers, Sequences, FiniteSets, TLC

VARIABLES
    vfn, vin, vres,             \* validators: function called, input, result
    ts, builder, built, call,   \* trace state: caller's TraceState, live builder,
                                \* last build() result, last builder call
    hist,                       \* what was asked of the builder since it was created
    tid, sid, ctx, id_ret,      \* a TraceId, a SpanId, a SpanContext, last method result
    r1, r2, rcall,              \* resources: self, other, last resource call
    m_in, m_out,                \* resource algebra: three resources, the merges made of them
    origin, dctx, wire, hops,   \* distributed context: as created, at the current node,
                                \* payload in flight, hops made
    gen,                        \* last generate_random_id call
    b_src, b_id, b_ret          \* a byte array, the identifier read from it, what a
                                \* method of that identifier returned

valVars == <<vfn, vin, vres>>
tsVars  == <<ts, builder, built, call, hist>>
idVars  == <<tid, sid, ctx, id_ret>>
resVars == <<r1, r2, rcall>>
algVars == <<m_in, m_out>>
ttlVars == <<origin, dctx, wire, hops>>
genVars == <<gen>>
bytVars == <<b_src, b_id, b_ret>>
vars    == <<vfn, vin, vres, ts, builder, built, call, hist, tid, sid, ctx, id_ret, r1, r2, rcall,
             m_in, m_out, origin, dctx, wire, hops, gen, b_src, b_id, b_ret>>

None == <<>>
Some(x) == <<x>>

Ok(v) == [ok |-> TRUE, val |-> v]
Panic == [ok |-> FALSE, val |-> <<>>]

\* nothing merged, no context propagated, no identifier generated
NoMerges ==
    [ab |-> None, ba |-> None, ab_c |-> None, bc |-> None, a_bc |-> None,
     ab_b |-> None, a_e |-> None, e_a |-> None]
AlgIdle == m_in = [a |-> <<>>, b |-> <<>>, c |-> <<>>] /\ m_out = NoMerges
TtlIdle == origin = <<>> /\ dctx = <<>> /\ wire = None /\ hops = 0
GenIdle == gen = None
BytIdle == b_src = <<>> /\ b_id = None /\ b_ret = None

(***************************************************************************)
(* Bounds of the model.                                                    *)
(***************************************************************************)
MaxCoreLen == 2       \* free characters in front of the padding of an input
NumVals == 3          \* distinct valid values offered to the builder
ExtraKeys == 2        \* distinct keys offered beyond MAX_KEY_VALUE_PAIRS
MaxParentLen == 2     \* entries of the TraceState a builder starts from
NumByteVals == 2      \* distinct non-zero byte values in the byte arrays
NumResVals == 2       \* distinct non-empty label values
MaxTtl == 2           \* largest hop count n of an EntryTtl::Propagation(n)
MaxHops == 4          \* hops a distributed context travels
MaxGenCalls == 3      \* calls of generate_random_id in a row

(***************************************************************************)
(* char and str primitives of the standard library that the code calls.    *)
(***************************************************************************)
is_ascii(c) == c <= 127
is_ascii_control(c) == c <= 31 \/ c = 127
is_ascii_lowercase(c) == c >= 97 /\ c <= 122
is_ascii_digit(c) == c >= 48 /\ c <= 57

\* str::len(): the length in bytes of the UTF-8 encoding, where a code point takes
\* one byte and one more from each of 0x80, 0x800 and 0x10000 on
CharsFrom(s, c) == Cardinality({i \in 1..Len(s) : s[i] >= c})
len(s) == Len(s) + CharsFrom(s, 128) + CharsFrom(s, 2048) + CharsFrom(s, 65536)

(***************************************************************************)
(* trace_state.rs: constants and validators.                               *)
(***************************************************************************)
MAX_KEY_LEN == 255
MAX_VAL_LEN == 255
MAX_KEY_VALUE_PAIRS == 32

KeyChar(c) ==
    is_ascii_lowercase(c) \/ is_ascii_digit(c) \/ c = 95 \/ c = 45 \/ c = 42 \/ c = 47

\* validate_key with the length limit exclusive
validate_key_short(key) ==
    IF ~(len(key) < MAX_KEY_LEN) THEN Panic
    ELSE IF ~(key # <<>>) THEN Panic
    ELSE IF ~is_ascii_lowercase(key[1]) THEN Panic
    ELSE IF ~(\A i \in 1..Len(key) : KeyChar(key[i])) THEN Panic
    ELSE Ok(key)

validate_key(key) ==
    IF ~(len(key) <= MAX_KEY_LEN) THEN Panic
    ELSE IF ~(key # <<>>) THEN Panic
    ELSE IF ~is_ascii_lowercase(key[1]) THEN Panic
    ELSE IF ~(\A i \in 1..Len(key) : KeyChar(key[i])) THEN Panic
    ELSE Ok(key)

ValueChar(c) == ~is_ascii_control(c) \/ c # 44 \/ c # 61

\* validate_value with the length limit exclusive
validate_value_short(value) ==
    IF ~(len(value) < MAX_VAL_LEN) THEN Panic
    ELSE IF ~(\A i \in 1..Len(value) : ValueChar(value[i])) THEN Panic
    ELSE Ok(value)

validate_value(value) ==
    IF ~(len(value) <= MAX_VAL_LEN) THEN Panic
    ELSE IF ~(\A i \in 1..Len(value) : ValueChar(value[i])) THEN Panic
    ELSE Ok(value)

(***************************************************************************)
(* internal/mod.rs: the validator shared by Resource and Entry.            *)
(***************************************************************************)
MAX_LEN == 255

\* the validator without the is_ascii test
validate_and_convert_str_control_only(to_check) ==
    IF ~(len(to_check) < MAX_LEN) THEN Panic
    ELSE IF ~(\A i \in 1..Len(to_check) : ~is_ascii_control(to_check[i])) THEN Panic
    ELSE Ok(to_check)

\* the validator with the length limit included
validate_and_convert_str_inclusive(to_check) ==
    IF ~(len(to_check) <= MAX_LEN) THEN Panic
    ELSE IF ~(\A i \in 1..Len(to_check) :
                 ~is_ascii_control(to_check[i]) /\ is_ascii(to_check[i])) THEN Panic
    ELSE Ok(to_check)

validate_and_convert_str(to_check) ==
    IF ~(len(to_check) < MAX_LEN) THEN Panic
    ELSE IF ~(\A i \in 1..Len(to_check) :
                 ~is_ascii_control(to_check[i]) /\ is_ascii(to_check[i])) THEN Panic
    ELSE Ok(to_check)

(***************************************************************************)
(* Inputs of the validators: a short free prefix over an alphabet holding  *)
(* every character class the code distinguishes, then 'a' repeated up to   *)
(* a length around the 255-byte limits.                                    *)
(*   a z 0 _ - * /   A space , =   LF DEL   e-acute (2 bytes in UTF-8)     *)
(***************************************************************************)
Alphabet == {97, 122, 48, 95, 45, 42, 47, 65, 32, 44, 61, 10, 127, 233}

RECURSIVE Cores(_)
Cores(n) ==
    IF n = 0 THEN {<<>>}
    ELSE LET shorter == Cores(n - 1)
         IN  shorter \cup {Append(s, c) : s \in shorter, c \in Alphabet}

PadLens == {0} \cup ((MAX_KEY_LEN - 2)..(MAX_KEY_LEN + 1))

Padded(core, n) == core \o [i \in 1..n |-> 97]

Inputs == {Padded(core, n) : core \in Cores(MaxCoreLen), n \in PadLens}

\* no validator called
ValIdle ==
    /\ vfn = "none"
    /\ vin = <<>>
    /\ vres = Panic

\* an input is chosen, and one of the validators is then applied to it
ValInit ==
    /\ vfn = "none"
    /\ vin \in Inputs
    /\ vres = Panic

CallValidateKey ==
    /\ vfn = "none"
    /\ vfn' = "validate_key"
    /\ vres' = validate_key(vin)
    /\ UNCHANGED vin
    /\ UNCHANGED <<tsVars, idVars, resVars, algVars, ttlVars, genVars, bytVars>>

CallValidateValue ==
    /\ vfn = "none"
    /\ vfn' = "validate_value"
    /\ vres' = validate_value(vin)
    /\ UNCHANGED vin
    /\ UNCHANGED <<tsVars, idVars, resVars, algVars, ttlVars, genVars, bytVars>>

CallValidateStr ==
    /\ vfn = "none"
    /\ vfn' = "validate_and_convert_str"
    /\ vres' = validate_and_convert_str(vin)
    /\ UNCHANGED vin
    /\ UNCHANGED <<tsVars, idVars, resVars, algVars, ttlVars, genVars, bytVars>>

(***************************************************************************)
(* trace_state.rs: TraceState and TraceStateBuilder.                       *)
(***************************************************************************)
Entry(key, value) == [key |-> key, value |-> value]

\* TraceState::default()
TraceStateDefault == [entries |-> <<>>]

\* TraceState::new cutting the list to the cap
TraceStateNew_truncating(entries) ==
    Ok([entries |-> SubSeq(entries, 1,
                           IF Len(entries) <= MAX_KEY_VALUE_PAIRS THEN Len(entries)
                           ELSE MAX_KEY_VALUE_PAIRS)])

\* TraceState::new: asserts the cap
TraceStateNew(entries) ==
    IF ~(Len(entries) <= MAX_KEY_VALUE_PAIRS) THEN Panic
    ELSE Ok([entries |-> entries])

\* TraceState::get: the first entry with the key
RECURSIVE FindFrom(_, _, _)
FindFrom(entries, key, i) ==
    IF i > Len(entries) THEN None
    ELSE IF entries[i].key = key THEN Some(entries[i])
    ELSE FindFrom(entries, key, i + 1)
get(self, key) == FindFrom(self.entries, key, 1)

\* The builder's parent is a borrow of the caller's TraceState.
TsRef == "ts"
Deref(r) == ts

\* a first mutation that starts from an empty list whatever the parent holds
ParentEntries_empty(parent) == <<>>

\* self.parent.map_or(vec![], |x| x.entries.clone())
ParentEntries(parent) == IF parent = None THEN <<>> ELSE Deref(parent[1]).entries

\* Option::get_or_insert
get_or_insert(opt, v) == IF opt = None THEN v ELSE opt[1]

\* a retain that drops nothing
retain_all(entries, key) == entries

\* Vec::retain(|x| x.key != key)
retain(entries, key) == SelectSeq(entries, LAMBDA x : x.key # key)

\* a push at the back
insert_last(entries, e) == Append(entries, e)

\* Vec::insert(0, e)
insert0(entries, e) == <<e>> \o entries

\* TraceStateBuilder::builder()
builder_default == [parent |-> None, entries |-> None]

\* TraceState::as_builder
as_builder == [parent |-> Some(TsRef), entries |-> None]

\* a set that refuses a new entry once the cap is reached
set_capped(self, key, value) ==
    LET entries == get_or_insert(self.entries, ParentEntries(self.parent))
        k == validate_key(key)
        v == validate_value(value)
    IN  IF ~k.ok \/ ~v.ok THEN Panic
        ELSE IF ~(Len(retain(entries, k.val)) < MAX_KEY_VALUE_PAIRS) THEN Panic
        ELSE Ok([parent |-> self.parent,
                 entries |-> Some(insert0(retain(entries, k.val), Entry(k.val, v.val)))])

\* TraceStateBuilder::set
set(self, key, value) ==
    LET entries == get_or_insert(self.entries, ParentEntries(self.parent))
        k == validate_key(key)
        v == validate_value(value)
    IN  IF ~k.ok \/ ~v.ok THEN Panic
        ELSE Ok([parent |-> self.parent,
                 entries |-> Some(insert0(retain(entries, k.val), Entry(k.val, v.val)))])

\* TraceStateBuilder::remove
remove(self, key) ==
    LET k == validate_key(key)
        entries == get_or_insert(self.entries, ParentEntries(self.parent))
    IN  IF ~k.ok THEN Panic
        ELSE Ok([parent |-> self.parent, entries |-> Some(retain(entries, k.val))])

\* TraceStateBuilder::build
build(self) ==
    IF self.entries = None THEN TraceStateNew(ParentEntries(self.parent))
    ELSE TraceStateNew(self.entries[1])

Called(op, key, value, panic) == [op |-> op, key |-> key, value |-> value, panic |-> panic]

\* The record of a builder's life: whether it was made by as_builder, the last
\* call made for each key, and the entries of a builder that clones its parent's
\* entries when it is created instead of at its first mutation.
\* over tells whether the builder has ever stood for more entries than the cap.
History(parent, ops, eager, over) ==
    [parent |-> parent, ops |-> ops, eager |-> eager, over |-> over]
NoHistory == History(None, <<>>, <<>>, FALSE)
touch(ops, key, op) == [k \in DOMAIN ops \cup {key} |-> IF k = key THEN op ELSE ops[k]]
hist_set(h, key, value) ==
    LET eager == insert0(retain(h.eager, key), Entry(key, value))
    IN  History(h.parent, touch(h.ops, key, [op |-> "set", value |-> value]), eager,
                h.over \/ Len(eager) > MAX_KEY_VALUE_PAIRS)
hist_remove(h, key) ==
    History(h.parent, touch(h.ops, key, [op |-> "remove", value |-> <<>>]),
            retain(h.eager, key), h.over)

\* no builder yet, over the default TraceState
TsIdle ==
    /\ ts = TraceStateDefault
    /\ builder = None
    /\ built = None
    /\ call = Called("none", <<>>, <<>>, FALSE)
    /\ hist = NoHistory

\* let b = TraceStateBuilder::builder(); the result of an earlier build is dropped
NewBuilder ==
    /\ builder' = Some(builder_default)
    /\ call' = Called("builder", <<>>, <<>>, FALSE)
    /\ hist' = NoHistory
    /\ built' = None
    /\ UNCHANGED ts
    /\ UNCHANGED <<valVars, idVars, resVars, algVars, ttlVars, genVars, bytVars>>

\* let b = ts.as_builder(); the result of an earlier build is dropped
AsBuilder ==
    /\ builder' = Some(as_builder)
    /\ call' = Called("as_builder", <<>>, <<>>, FALSE)
    /\ hist' = History(Some(TsRef), <<>>, ts.entries, FALSE)
    /\ built' = None
    /\ UNCHANGED ts
    /\ UNCHANGED <<valVars, idVars, resVars, algVars, ttlVars, genVars, bytVars>>

\* set editing the parent's own list instead of a copy of it
SetInPlace(key, value) ==
    /\ builder # None
    /\ LET r == set(builder[1], key, value)
       IN  /\ builder' = IF r.ok THEN Some(r.val) ELSE None
           /\ call' = Called("set", key, value, ~r.ok)
           /\ hist' = IF r.ok THEN hist_set(hist, key, value) ELSE NoHistory
           /\ ts' = IF r.ok /\ builder[1].parent # None
                    THEN [entries |-> r.val.entries[1]]
                    ELSE ts
    /\ UNCHANGED built
    /\ UNCHANGED <<valVars, idVars, resVars, algVars, ttlVars, genVars, bytVars>>

\* b = b.set(key, value); a panic drops the builder that was moved in
Set(key, value) ==
    /\ builder # None
    /\ LET r == set(builder[1], key, value)
       IN  /\ builder' = IF r.ok THEN Some(r.val) ELSE None
           /\ call' = Called("set", key, value, ~r.ok)
           /\ hist' = IF r.ok THEN hist_set(hist, key, value) ELSE NoHistory
    /\ UNCHANGED <<ts, built>>
    /\ UNCHANGED <<valVars, idVars, resVars, algVars, ttlVars, genVars, bytVars>>

\* b = b.remove(key);
Remove(key) ==
    /\ builder # None
    /\ LET r == remove(builder[1], key)
       IN  /\ builder' = IF r.ok THEN Some(r.val) ELSE None
           /\ call' = Called("remove", key, <<>>, ~r.ok)
           /\ hist' = IF r.ok THEN hist_remove(hist, key) ELSE NoHistory
    /\ UNCHANGED <<ts, built>>
    /\ UNCHANGED <<valVars, idVars, resVars, algVars, ttlVars, genVars, bytVars>>

\* let t = b.build(); the builder is consumed
Build ==
    /\ builder # None
    /\ LET r == build(builder[1])
       IN  /\ built' = IF r.ok THEN Some(r.val) ELSE None
           /\ call' = Called("build", <<>>, <<>>, ~r.ok)
    /\ builder' = None
    /\ UNCHANGED <<ts, hist>>
    /\ UNCHANGED <<valVars, idVars, resVars, algVars, ttlVars, genVars, bytVars>>

(***************************************************************************)
(* Inputs of the builder.                                                  *)
(***************************************************************************)
\* "a", "b", "c" and, failing validation, "A"
TsKeys == {<<97>>, <<98>>, <<99>>, <<65>>}
\* "1", "2", ... and, failing validation, 256 bytes of 'a'
TsValues == {<<48 + i>> : i \in 1..NumVals} \cup {Padded(<<>>, MAX_VAL_LEN + 1)}

\* the key of n bytes "aa...a": one distinct valid key per n in 1..255
CapKey(n) == Padded(<<>>, n)

\* The TraceState a caller holds was built earlier: the default one, or the one
\* built from "a" = "1", "b" = "2", ... set in this order.
RECURSIVE BuilderOf(_)
BuilderOf(n) ==
    IF n = 0 THEN builder_default
    ELSE set(BuilderOf(n - 1), <<96 + n>>, <<48 + n>>).val
Parents == {build(BuilderOf(n)).val : n \in 0..MaxParentLen}

(***************************************************************************)
(* trace_id.rs, span_id.rs: identifiers.  A u128 or u64 is the sequence of *)
(* its 16-bit limbs, most significant first (8 limbs, 4 limbs); a byte     *)
(* array is a sequence of bytes.                                           *)
(***************************************************************************)
\* the bytes read least significant first
from_le_bytes(v) ==
    [j \in 1..(Len(v) \div 2) |-> v[Len(v) - 2 * j + 2] * 256 + v[Len(v) - 2 * j + 1]]

\* u128::from_be_bytes, u64::from_be_bytes
from_be_bytes(v) == [j \in 1..(Len(v) \div 2) |-> v[2 * j - 1] * 256 + v[2 * j]]

\* u128::to_be_bytes, u64::to_be_bytes
to_be_bytes(x) ==
    [i \in 1..(2 * Len(x)) |->
        IF i % 2 = 1 THEN x[(i + 1) \div 2] \div 256 ELSE x[i \div 2] % 256]

\* const INVALID: TraceId = TraceId(0), and TraceId::get_invalid
TraceId_INVALID == [j \in 1..8 |-> 0]
\* const INVALID: SpanId = SpanId(0), and SpanId::invalid
SpanId_INVALID == [j \in 1..4 |-> 0]

\* TraceId::from_bytes and From<[u8; 16]>
TraceId_from_bytes(src) == from_be_bytes(src)
\* SpanId::from_bytes
SpanId_from_bytes(src) == from_be_bytes(src)
\* SpanId::new
SpanId_new(id) == id

\* TraceId::is_valid
TraceId_is_valid(self) == self = TraceId_INVALID
\* SpanId::is_valid
SpanId_is_valid(self) == self = SpanId_INVALID

\* trace_options.rs
DEFAULT_OPTIONS == 0
IS_SAMPLED == 1

\* span_context.rs: the struct, built as a literal of its public fields
SpanContext(trace_id, span_id, options, state) ==
    [trace_id |-> trace_id, span_id |-> span_id, options |-> options, state |-> state]

\* The source declares neither of the next two for SpanContext: they follow the
\* reference implementation kept as a comment below the struct.
SpanContext_INVALID ==
    SpanContext(TraceId_INVALID, SpanId_INVALID, DEFAULT_OPTIONS, TraceStateDefault)
SpanContext_is_valid(self) ==
    TraceId_is_valid(self.trace_id) /\ SpanId_is_valid(self.span_id)

\* byte arrays of width w: one byte chosen freely, the others all 0 or all 255
ByteVals == {0} \cup {(255 * k) \div NumByteVals : k \in 1..NumByteVals}
ByteArrays(w) ==
    {[i \in 1..w |-> IF i = p THEN b ELSE fill] :
        p \in 1..w, b \in ByteVals, fill \in {0, 255}}

Returned(fn, ret) == [fn |-> fn, ret |-> ret]

IdInit ==
    /\ tid = None
    /\ sid = None
    /\ ctx = None
    /\ id_ret = None

\* let tid = TraceId::from_bytes(src);  (TraceId::from(src) is the same code)
TraceIdFromBytes ==
    /\ tid = None
    /\ \E src \in ByteArrays(16) : tid' = Some(TraceId_from_bytes(src))
    /\ UNCHANGED <<sid, ctx, id_ret>>
    /\ UNCHANGED <<valVars, tsVars, resVars, algVars, ttlVars, genVars, bytVars>>

\* let tid = TraceId::get_invalid();
TraceIdGetInvalid ==
    /\ tid = None
    /\ tid' = Some(TraceId_INVALID)
    /\ UNCHANGED <<sid, ctx, id_ret>>
    /\ UNCHANGED <<valVars, tsVars, resVars, algVars, ttlVars, genVars, bytVars>>

\* let sid = SpanId::from_bytes(src);
SpanIdFromBytes ==
    /\ sid = None
    /\ \E src \in ByteArrays(8) : sid' = Some(SpanId_from_bytes(src))
    /\ UNCHANGED <<tid, ctx, id_ret>>
    /\ UNCHANGED <<valVars, tsVars, resVars, algVars, ttlVars, genVars, bytVars>>

\* let sid = SpanId::new(id);
SpanIdNew ==
    /\ sid = None
    /\ \E src \in ByteArrays(8) : sid' = Some(SpanId_new(from_be_bytes(src)))
    /\ UNCHANGED <<tid, ctx, id_ret>>
    /\ UNCHANGED <<valVars, tsVars, resVars, algVars, ttlVars, genVars, bytVars>>

\* let sid = SpanId::invalid();
SpanIdInvalid ==
    /\ sid = None
    /\ sid' = Some(SpanId_INVALID)
    /\ UNCHANGED <<tid, ctx, id_ret>>
    /\ UNCHANGED <<valVars, tsVars, resVars, algVars, ttlVars, genVars, bytVars>>

\* tid.is_valid()
TraceIdIsValid ==
    /\ tid # None
    /\ id_ret = None
    /\ id_ret' = Some(Returned("TraceId::is_valid", TraceId_is_valid(tid[1])))
    /\ UNCHANGED <<tid, sid, ctx>>
    /\ UNCHANGED <<valVars, tsVars, resVars, algVars, ttlVars, genVars, bytVars>>

\* sid.is_valid()
SpanIdIsValid ==
    /\ sid # None
    /\ id_ret = None
    /\ id_ret' = Some(Returned("SpanId::is_valid", SpanId_is_valid(sid[1])))
    /\ UNCHANGED <<tid, sid, ctx>>
    /\ UNCHANGED <<valVars, tsVars, resVars, algVars, ttlVars, genVars, bytVars>>

\* let ctx = SpanContext { trace_id: tid, span_id: sid, options, state };
NewSpanContext ==
    /\ tid # None
    /\ sid # None
    /\ ctx = None
    /\ id_ret = None
    /\ \E options \in {DEFAULT_OPTIONS, IS_SAMPLED} :
          ctx' = Some(SpanContext(tid[1], sid[1], options, TraceStateDefault))
    /\ UNCHANGED <<tid, sid, id_ret>>
    /\ UNCHANGED <<valVars, tsVars, resVars, algVars, ttlVars, genVars, bytVars>>

\* ctx.is_valid()
SpanContextIsValid ==
    /\ ctx # None
    /\ id_ret = None
    /\ id_ret' = Some(Returned("SpanContext::is_valid", SpanContext_is_valid(ctx[1])))
    /\ UNCHANGED <<tid, sid, ctx>>
    /\ UNCHANGED <<valVars, tsVars, resVars, algVars, ttlVars, genVars, bytVars>>

(***************************************************************************)
(* resource.rs: Resource.  labels is a function from keys to values.       *)
(***************************************************************************)
\* HashMap::insert
map_insert(labels, key, value) ==
    [k \in DOMAIN labels \cup {key} |-> IF k = key THEN value ELSE labels[k]]

\* a merge that always takes the value of other
merge_entry_overwrite(labels, key, value) == map_insert(labels, key, value)

\* a merge that only fills labels that are present and empty
merge_entry_occupied_only(labels, key, value) ==
    IF key \notin DOMAIN labels THEN labels
    ELSE IF labels[key] = <<>> THEN map_insert(labels, key, value)
    ELSE labels

\* the body of the closure of merge: one (key, value) of other
merge_entry(labels, key, value) ==
    IF key \notin DOMAIN labels THEN map_insert(labels, key, value)
    ELSE IF labels[key] = <<>> THEN map_insert(labels, key, value)
    ELSE labels

\* other.labels.into_iter().for_each(..), in the order the map yields its entries
RECURSIVE for_each(_, _, _)
for_each(labels, other, keys) ==
    IF keys = {} THEN labels
    ELSE LET key == CHOOSE k \in keys : TRUE
         IN  for_each(merge_entry(labels, key, other[key]), other, keys \ {key})

\* Resource::merge
merge(self, other) == for_each(self, other, DOMAIN other)

\* Resource::empty
Resource_empty == <<>>

\* Resource::create
create(labels) ==
    IF \A k \in DOMAIN labels :
          validate_and_convert_str(k).ok /\ validate_and_convert_str(labels[k]).ok
    THEN Ok([k \in DOMAIN labels |-> validate_and_convert_str(labels[k]).val])
    ELSE Panic

\* Resource::get
Resource_get(self, label) == IF label \in DOMAIN self THEN Some(self[label]) ELSE None

\* labels of self use "t1", "t2", "t3", labels of other "t1", "t2", "t4";
\* values are "" and "v", "w", ...
SelfKeys == {<<116, 49>>, <<116, 50>>, <<116, 51>>}
OtherKeys == {<<116, 49>>, <<116, 50>>, <<116, 52>>}
ResVals == {<<>>} \cup {<<117 + i>> : i \in 1..NumResVals}
LabelMaps(keys) == UNION {[d -> ResVals] : d \in SUBSET keys}
Resources(keys) == {create(m).val : m \in LabelMaps(keys)}

ResCalled(op, self, other) == [op |-> op, self |-> self, other |-> other]

ResIdle ==
    /\ r1 = Resource_empty
    /\ r2 = None
    /\ rcall = ResCalled("none", <<>>, <<>>)

\* two resources have been created
ResInit ==
    /\ r1 \in Resources(SelfKeys)
    /\ r2 \in {Some(r) : r \in Resources(OtherKeys)}
    /\ rcall = ResCalled("none", <<>>, <<>>)

\* r1.merge(r2); r2 is moved into the call
Merge ==
    /\ r2 # None
    /\ r1' = merge(r1, r2[1])
    /\ r2' = None
    /\ rcall' = ResCalled("merge", r1, r2[1])
    /\ UNCHANGED <<valVars, tsVars, idVars, algVars, ttlVars, genVars, bytVars>>

(***************************************************************************)
(* resource.rs: merge as an operation on three resources a, b, c.  Each    *)
(* merge call works on a resource equal to the one named, created again    *)
(* where the call before consumed it.                                      *)
(***************************************************************************)
\* labels "t1" and "t2"
AlgKeys == {<<116, 49>>, <<116, 50>>}

AlgInit ==
    /\ m_in \in [a : Resources(AlgKeys), b : Resources(AlgKeys), c : Resources(AlgKeys)]
    /\ m_out = NoMerges

\* let mut ab = a; ab.merge(b)
MergeAB ==
    /\ m_out.ab = None
    /\ m_out' = [m_out EXCEPT !.ab = Some(merge(m_in.a, m_in.b))]
    /\ UNCHANGED <<m_in, valVars, tsVars, idVars, resVars, ttlVars, genVars, bytVars>>

\* let mut ba = b; ba.merge(a)
MergeBA ==
    /\ m_out.ab # None
    /\ m_out.ba = None
    /\ m_out' = [m_out EXCEPT !.ba = Some(merge(m_in.b, m_in.a))]
    /\ UNCHANGED <<m_in, valVars, tsVars, idVars, resVars, ttlVars, genVars, bytVars>>

\* ab.merge(c)
MergeAB_C ==
    /\ m_out.ba # None
    /\ m_out.ab_c = None
    /\ m_out' = [m_out EXCEPT !.ab_c = Some(merge(m_out.ab[1], m_in.c))]
    /\ UNCHANGED <<m_in, valVars, tsVars, idVars, resVars, ttlVars, genVars, bytVars>>

\* let mut bc = b; bc.merge(c)
MergeBC ==
    /\ m_out.ab_c # None
    /\ m_out.bc = None
    /\ m_out' = [m_out EXCEPT !.bc = Some(merge(m_in.b, m_in.c))]
    /\ UNCHANGED <<m_in, valVars, tsVars, idVars, resVars, ttlVars, genVars, bytVars>>

\* let mut a_bc = a; a_bc.merge(bc)
MergeA_BC ==
    /\ m_out.bc # None
    /\ m_out.a_bc = None
    /\ m_out' = [m_out EXCEPT !.a_bc = Some(merge(m_in.a, m_out.bc[1]))]
    /\ UNCHANGED <<m_in, valVars, tsVars, idVars, resVars, ttlVars, genVars, bytVars>>

\* let mut ab_b = ab; ab_b.merge(b): b merged a second time
MergeAB_B ==
    /\ m_out.a_bc # None
    /\ m_out.ab_b = None
    /\ m_out' = [m_out EXCEPT !.ab_b = Some(merge(m_out.ab[1], m_in.b))]
    /\ UNCHANGED <<m_in, valVars, tsVars, idVars, resVars, ttlVars, genVars, bytVars>>

\* let mut a_e = a; a_e.merge(Resource::empty())
MergeA_Empty ==
    /\ m_out.ab_b # None
    /\ m_out.a_e = None
    /\ m_out' = [m_out EXCEPT !.a_e = Some(merge(m_in.a, Resource_empty))]
    /\ UNCHANGED <<m_in, valVars, tsVars, idVars, resVars, ttlVars, genVars, bytVars>>

\* let mut e_a = Resource::empty(); e_a.merge(a)
MergeEmpty_A ==
    /\ m_out.a_e # None
    /\ m_out.e_a = None
    /\ m_out' = [m_out EXCEPT !.e_a = Some(merge(Resource_empty, m_in.a))]
    /\ UNCHANGED <<m_in, valVars, tsVars, idVars, resVars, ttlVars, genVars, bytVars>>

(***************************************************************************)
(* Resource::create called with the chosen input as a label key or as a    *)
(* label value, next to one more label that is valid.                      *)
(***************************************************************************)
\* "test" and "label"
TestKey == <<116, 101, 115, 116>>
LabelValue == <<108, 97, 98, 101, 108>>

\* Resource::create(labels) where labels = {vin: "label", "test": "label"}
CallCreateKey ==
    /\ vfn = "none"
    /\ vfn' = "create_key"
    /\ vres' = create(map_insert(map_insert(<<>>, TestKey, LabelValue), vin, LabelValue))
    /\ UNCHANGED vin
    /\ UNCHANGED <<tsVars, idVars, resVars, algVars, ttlVars, genVars, bytVars>>

\* Resource::create(labels) where labels = {"test": vin, "label": "label"}
CallCreateValue ==
    /\ vfn = "none"
    /\ vfn' = "create_value"
    /\ vres' = create(map_insert(map_insert(<<>>, LabelValue, LabelValue), TestKey, vin))
    /\ UNCHANGED vin
    /\ UNCHANGED <<tsVars, idVars, resVars, algVars, ttlVars, genVars, bytVars>>

(***************************************************************************)
(* distributedcontext/entry.rs: Entry, EntryKey, EntryValue,               *)
(* EntryMetadata, EntryTtl.                                                *)
(***************************************************************************)
\* enum EntryTtl
NoPropagation == [tag |-> "NoPropagation", n |-> 0]
Propagation(n) == [tag |-> "Propagation", n |-> n]
UnlimitedPropagation == [tag |-> "UnlimitedPropagation", n |-> 0]

\* EntryKey::new, EntryValue::new
EntryKey_new(name) == validate_and_convert_str(name)
EntryValue_new(name) == validate_and_convert_str(name)

\* EntryMetadata::new
EntryMetadata_new(entry_ttl) == [entry_ttl |-> entry_ttl]

\* Entry::new
Entry_new(key, value, metadata) == [key |-> key, value |-> value, metadata |-> metadata]

Ttls == {NoPropagation, UnlimitedPropagation} \cup {Propagation(n) : n \in 0..MaxTtl}

CallEntryKeyNew ==
    /\ vfn = "none"
    /\ vfn' = "EntryKey_new"
    /\ vres' = EntryKey_new(vin)
    /\ UNCHANGED vin
    /\ UNCHANGED <<tsVars, idVars, resVars, algVars, ttlVars, genVars, bytVars>>

CallEntryValueNew ==
    /\ vfn = "none"
    /\ vfn' = "EntryValue_new"
    /\ vres' = EntryValue_new(vin)
    /\ UNCHANGED vin
    /\ UNCHANGED <<tsVars, idVars, resVars, algVars, ttlVars, genVars, bytVars>>

\* Entry::new(EntryKey::new(vin), EntryValue::new(vin), EntryMetadata::new(entry_ttl))
CallEntryNew(entry_ttl) ==
    /\ vfn = "none"
    /\ vfn' = "Entry_new"
    /\ vres' = LET key == EntryKey_new(vin)
                   value == EntryValue_new(vin)
               IN  IF ~key.ok \/ ~value.ok THEN Panic
                   ELSE Ok(Entry_new(key.val, value.val, EntryMetadata_new(entry_ttl)))
    /\ UNCHANGED vin
    /\ UNCHANGED <<tsVars, idVars, resVars, algVars, ttlVars, genVars, bytVars>>

(***************************************************************************)
(* Propagation of a distributed context over hops.  A context is a         *)
(* function from keys to entries; a payload is the set of (key, value,     *)
(* ttl) triples a sender serializes; the receiver builds its context from  *)
(* the payload.  The repository declares EntryTtl and leaves the steps to  *)
(* the propagators: they are written here as the specification gives them. *)
(***************************************************************************)
\* a hop rule that sends every entry on unchanged
propagate_keep_all(entry) == Some(entry)

\* a hop rule that sends on only the entries that count hops
propagate_counted_only(entry) ==
    LET entry_ttl == entry.metadata.entry_ttl
    IN  IF entry_ttl.tag = "Propagation" /\ entry_ttl.n > 0
        THEN Some(Entry_new(entry.key, entry.value,
                            EntryMetadata_new(Propagation(entry_ttl.n - 1))))
        ELSE None

\* a hop rule that does not count
propagate_no_decrement(entry) ==
    LET entry_ttl == entry.metadata.entry_ttl
    IN  IF entry_ttl.tag = "NoPropagation" THEN None
        ELSE IF entry_ttl.tag = "Propagation" /\ entry_ttl.n = 0 THEN None
        ELSE Some(entry)

\* what one hop makes of an entry: None where the entry is not sent
propagate(entry) ==
    LET entry_ttl == entry.metadata.entry_ttl
    IN  IF entry_ttl.tag = "NoPropagation" THEN None
        ELSE IF entry_ttl.tag = "UnlimitedPropagation" THEN Some(entry)
        ELSE IF entry_ttl.n = 0 THEN None
        ELSE Some(Entry_new(entry.key, entry.value,
                            EntryMetadata_new(Propagation(entry_ttl.n - 1))))

\* the sender's side of a hop
serialize(context) ==
    {<<e.key, e.value, e.metadata.entry_ttl>> :
        e \in UNION {{propagate(context[k])[i] : i \in DOMAIN propagate(context[k])} :
                        k \in DOMAIN context}}

\* the receiver's side of a hop
deserialize(payload) ==
    [k \in {t[1] : t \in payload} |->
        LET t == CHOOSE u \in payload : u[1] = k
        IN  Entry_new(EntryKey_new(t[1]).val, EntryValue_new(t[2]).val, EntryMetadata_new(t[3]))]

\* keys "k1", "k2"; value "label"
CtxKeys == {<<107, 49>>, <<107, 50>>}

Contexts ==
    UNION {[d -> Ttls] : d \in SUBSET CtxKeys}

TtlInit ==
    /\ \E ttls \in Contexts :
          dctx = [k \in DOMAIN ttls |->
                    Entry_new(EntryKey_new(k).val, EntryValue_new(LabelValue).val,
                              EntryMetadata_new(ttls[k]))]
    /\ origin = dctx
    /\ wire = None
    /\ hops = 0

Serialize ==
    /\ wire = None
    /\ hops < MaxHops
    /\ wire' = Some(serialize(dctx))
    /\ UNCHANGED <<origin, dctx, hops>>
    /\ UNCHANGED <<valVars, tsVars, idVars, resVars, algVars, genVars, bytVars>>

Deserialize ==
    /\ wire # None
    /\ dctx' = deserialize(wire[1])
    /\ wire' = None
    /\ hops' = hops + 1
    /\ UNCHANGED origin
    /\ UNCHANGED <<valVars, tsVars, idVars, resVars, algVars, genVars, bytVars>>

(***************************************************************************)
(* trace_id.rs, span_id.rs: generate_random_id.  The random source is a    *)
(* choice among sample integers: those of the byte arrays and the four     *)
(* ends of the integer range.                                              *)
(***************************************************************************)
\* x < y for two integers of the same width
u_lt(x, y) ==
    \E j \in DOMAIN x : x[j] < y[j] /\ \A i \in 1..(j - 1) : x[i] = y[i]

\* 1 and std::u128::MAX, std::u64::MAX, as w limbs
u_one(w) == [j \in 1..w |-> IF j = w THEN 1 ELSE 0]
u_MAX(w) == [j \in 1..w |-> 65535]

Samples(w) ==
    {from_be_bytes(b) : b \in ByteArrays(2 * w)}
        \cup {[j \in 1..w |-> 0], u_one(w), u_MAX(w),
              [j \in 1..w |-> IF j = w THEN 65534 ELSE 65535]}

\* a range whose low end is not enforced
gen_range_no_low(low, high) ==
    {x \in Samples(Len(low)) : u_lt(x, high)}

\* Rng::gen_range(low, high): any value of the half-open range [low, high)
gen_range(low, high) ==
    {x \in Samples(Len(low)) : ~u_lt(x, low) /\ u_lt(x, high)}

\* TraceId::generate_random_id, SpanId::generate_random_id: the values a call may return
TraceId_generate_random_id == gen_range(u_one(8), u_MAX(8))
SpanId_generate_random_id == gen_range(u_one(4), u_MAX(4))

Generated(fn, id, calls) == [fn |-> fn, id |-> id, calls |-> calls]
GenCalls == IF gen = None THEN 0 ELSE gen[1].calls

TraceIdGenerateRandomId ==
    /\ GenCalls < MaxGenCalls
    /\ \E id \in TraceId_generate_random_id :
          gen' = Some(Generated("TraceId", id, GenCalls + 1))
    /\ UNCHANGED <<valVars, tsVars, idVars, resVars, algVars, ttlVars, bytVars>>

SpanIdGenerateRandomId ==
    /\ GenCalls < MaxGenCalls
    /\ \E id \in SpanId_generate_random_id :
          gen' = Some(Generated("SpanId", id, GenCalls + 1))
    /\ UNCHANGED <<valVars, tsVars, idVars, resVars, algVars, ttlVars, bytVars>>

(***************************************************************************)
(* trace_id.rs, span_id.rs: to_bytes and as_hex of an identifier read      *)
(* from a byte array of 16 (TraceId) or 8 (SpanId) bytes.                  *)
(***************************************************************************)
\* the character of one hexadecimal digit, lowercase
hex_digit(d) == IF d < 10 THEN 48 + d ELSE 87 + d

\* all hexadecimal digits of x, four to a limb
hex_digits(x) ==
    [i \in 1..(4 * Len(x)) |->
        LET limb == x[(i + 3) \div 4]
            pos == (i - 1) % 4
        IN  hex_digit(IF pos = 0 THEN limb \div 4096
                      ELSE IF pos = 1 THEN (limb \div 256) % 16
                      ELSE IF pos = 2 THEN (limb \div 16) % 16
                      ELSE limb % 16)]

\* format!("{:x}", x): no leading zeros, "0" for zero
format_x(x) ==
    LET digits == hex_digits(x)
        significant == {i \in 1..Len(digits) : digits[i] # 48}
    IN  IF significant = {} THEN <<48>>
        ELSE LET first == CHOOSE i \in significant : \A k \in significant : i <= k
             IN  SubSeq(digits, first, Len(digits))

\* TraceId::to_bytes, SpanId::to_bytes
TraceId_to_bytes(self) == to_be_bytes(self)
SpanId_to_bytes(self) == to_be_bytes(self)

\* TraceId::as_hex, SpanId::as_hex
TraceId_as_hex(self) == format_x(self)
SpanId_as_hex(self) == format_x(self)

Identifier(kind, id) == [kind |-> kind, id |-> id]

BytInit ==
    /\ b_src \in ByteArrays(16) \cup ByteArrays(8)
    /\ b_id = None
    /\ b_ret = None

\* let id = TraceId::from_bytes(b_src);  or  SpanId::from_bytes(b_src)
FromBytes ==
    /\ b_id = None
    /\ b_id' = IF Len(b_src) = 16
               THEN Some(Identifier("TraceId", TraceId_from_bytes(b_src)))
               ELSE Some(Identifier("SpanId", SpanId_from_bytes(b_src)))
    /\ UNCHANGED <<b_src, b_ret>>
    /\ UNCHANGED <<valVars, tsVars, idVars, resVars, algVars, ttlVars, genVars>>

\* id.to_bytes()
ToBytes ==
    /\ b_id # None
    /\ b_ret = None
    /\ b_ret' = IF b_id[1].kind = "TraceId"
                THEN Some(Returned("to_bytes", TraceId_to_bytes(b_id[1].id)))
                ELSE Some(Returned("to_bytes", SpanId_to_bytes(b_id[1].id)))
    /\ UNCHANGED <<b_src, b_id>>
    /\ UNCHANGED <<valVars, tsVars, idVars, resVars, algVars, ttlVars, genVars>>

\* id.as_hex()
AsHex ==
    /\ b_id # None
    /\ b_ret = None
    /\ b_ret' = IF b_id[1].kind = "TraceId"
                THEN Some(Returned("as_hex", TraceId_as_hex(b_id[1].id)))
                ELSE Some(Returned("as_hex", SpanId_as_hex(b_id[1].id)))
    /\ UNCHANGED <<b_src, b_id>>
    /\ UNCHANGED <<valVars, tsVars, idVars, resVars, algVars, ttlVars, genVars>>

(***************************************************************************)
(* Specifications.                                                         *)
(***************************************************************************)
\* the validators on their own
InitVal == ValInit /\ TsIdle /\ IdInit /\ ResIdle /\ AlgIdle /\ TtlIdle /\ GenIdle /\ BytIdle
NextVal == CallValidateKey \/ CallValidateValue \/ CallValidateStr
SpecVal == InitVal /\ [][NextVal]_vars

\* builders over a TraceState built earlier, a few keys set and removed in any order
InitTs ==
    /\ ValIdle
    /\ IdInit
    /\ ResIdle
    /\ AlgIdle
    /\ TtlIdle
    /\ GenIdle /\ BytIdle
    /\ ts \in Parents
    /\ builder = None
    /\ built = None
    /\ call = Called("none", <<>>, <<>>, FALSE)
    /\ hist = NoHistory
NextTs ==
    \/ NewBuilder
    \/ AsBuilder
    \/ \E k \in TsKeys, v \in TsValues : Set(k, v)
    \/ \E k \in TsKeys : Remove(k)
    \/ Build
SpecTs == InitTs /\ [][NextTs]_vars

\* one builder filled with distinct keys up to and past the cap: each set adds the
\* next longer key, a remove drops the newest or the oldest entry
CapEntries == IF builder = None THEN <<>> ELSE get_or_insert(builder[1].entries, <<>>)
CapNewest == IF CapEntries = <<>> THEN 0 ELSE Len(CapEntries[1].key)
InitCap == ValIdle /\ TsIdle /\ IdInit /\ ResIdle /\ AlgIdle /\ TtlIdle /\ GenIdle /\ BytIdle
NextCap ==
    \/ NewBuilder
    \/ /\ CapNewest < MAX_KEY_VALUE_PAIRS + ExtraKeys
       /\ Set(CapKey(CapNewest + 1), <<49>>)
    \/ /\ CapEntries # <<>>
       /\ Remove(CapEntries[1].key)
    \/ /\ CapEntries # <<>>
       /\ Remove(CapEntries[Len(CapEntries)].key)
    \/ Build
SpecCap == InitCap /\ [][NextCap]_vars

\* identifiers and the span context made of them
InitId == ValIdle /\ TsIdle /\ IdInit /\ ResIdle /\ AlgIdle /\ TtlIdle /\ GenIdle /\ BytIdle
NextId ==
    \/ TraceIdFromBytes
    \/ TraceIdGetInvalid
    \/ SpanIdFromBytes
    \/ SpanIdNew
    \/ SpanIdInvalid
    \/ TraceIdIsValid
    \/ SpanIdIsValid
    \/ NewSpanContext
    \/ SpanContextIsValid
SpecId == InitId /\ [][NextId]_vars

\* two resources, merged
InitRes == ValIdle /\ TsIdle /\ IdInit /\ ResInit /\ AlgIdle /\ TtlIdle /\ GenIdle /\ BytIdle
NextRes == Merge
SpecRes == InitRes /\ [][NextRes]_vars

\* three resources, merged pairwise in both orders and as a triple in both groupings
InitAlg == ValIdle /\ TsIdle /\ IdInit /\ ResIdle /\ AlgInit /\ TtlIdle /\ GenIdle /\ BytIdle
NextAlg ==
    \/ MergeAB
    \/ MergeBA
    \/ MergeAB_C
    \/ MergeBC
    \/ MergeA_BC
    \/ MergeAB_B
    \/ MergeA_Empty
    \/ MergeEmpty_A
SpecAlg == InitAlg /\ [][NextAlg]_vars

\* the constructors that go through validate_and_convert_str
InitNew == ValInit /\ TsIdle /\ IdInit /\ ResIdle /\ AlgIdle /\ TtlIdle /\ GenIdle /\ BytIdle
NextNew ==
    \/ CallValidateStr
    \/ CallCreateKey
    \/ CallCreateValue
    \/ CallEntryKeyNew
    \/ CallEntryValueNew
    \/ \E entry_ttl \in Ttls : CallEntryNew(entry_ttl)
SpecNew == InitNew /\ [][NextNew]_vars

\* a distributed context travelling from node to node
InitTtl == ValIdle /\ TsIdle /\ IdInit /\ ResIdle /\ AlgIdle /\ TtlInit /\ GenIdle /\ BytIdle
NextTtl == Serialize \/ Deserialize
SpecTtl == InitTtl /\ [][NextTtl]_vars

\* identifiers generated at random, call after call
InitGen == ValIdle /\ TsIdle /\ IdInit /\ ResIdle /\ AlgIdle /\ TtlIdle /\ GenIdle /\ BytIdle
NextGen == TraceIdGenerateRandomId \/ SpanIdGenerateRandomId
SpecGen == InitGen /\ [][NextGen]_vars

\* an identifier read from bytes, then written back or rendered
InitByt == ValIdle /\ TsIdle /\ IdInit /\ ResIdle /\ AlgIdle /\ TtlIdle /\ GenIdle /\ BytInit
NextByt == FromBytes \/ ToBytes \/ AsHex
SpecByt == InitByt /\ [][NextByt]_vars

(***************************************************************************)
(* Properties.                                                             *)
(***************************************************************************)
NonZero(x) == \E j \in DOMAIN x : x[j] # 0

\* C1: for TraceId and for SpanId, is_valid() returns true exactly when the stored
\* integer is non-zero.
C1_IsValidIffNonZero ==
    id_ret # None =>
        /\ id_ret[1].fn = "TraceId::is_valid" => (id_ret[1].ret <=> NonZero(tid[1]))
        /\ id_ret[1].fn = "SpanId::is_valid" => (id_ret[1].ret <=> NonZero(sid[1]))

\* the entries a builder stands for: its own list, or its parent's until the
\* first mutation
Pending(b) ==
    IF b.entries # None THEN b.entries[1]
    ELSE IF b.parent # None THEN ts.entries
    ELSE <<>>

Without(entries, key) == SelectSeq(entries, LAMBDA x : x.key # key)

\* C2: a successful set(k, v) yields a list whose first entry is (k, v), that holds
\* no other entry with key k, and whose other entries are the previous ones with
\* other keys, in their previous order.
C2_SetFrontDedupOrder ==
    [][(call'.op = "set" /\ ~call'.panic) =>
          LET new == builder'[1].entries[1]
          IN  /\ new # <<>>
              /\ new[1] = [key |-> call'.key, value |-> call'.value]
              /\ \A i \in 2..Len(new) : new[i].key # call'.key
              /\ Tail(new) = Without(Pending(builder[1]), call'.key)]_vars

\* C2 at work: set("a", "3") has moved "a" in front of "b" = "2" in a builder
\* without parent
C2_Witness ==
    /\ call.op = "set"
    /\ builder # None
    /\ builder[1].parent = None
    /\ builder[1].entries = Some(<<[key |-> <<97>>, value |-> <<51>>],
                                   [key |-> <<98>>, value |-> <<50>>]>>)

\* the resources of test_merge_resources, with "v" for the values of self and
\* "w" for those of other
MergeExampleSelf ==
    (<<116, 49>> :> <<118>>) @@ (<<116, 50>> :> <<>>) @@ (<<116, 51>> :> <<118>>)
MergeExampleOther ==
    (<<116, 49>> :> <<119>>) @@ (<<116, 50>> :> <<119>>) @@ (<<116, 52>> :> <<119>>)
MergeExampleResult ==
    (<<116, 49>> :> <<118>>) @@ (<<116, 50>> :> <<119>>) @@ (<<116, 51>> :> <<118>>)
        @@ (<<116, 52>> :> <<119>>)

\* C3: merge gives each key of other the value of other when self has no label or
\* an empty one for it, and keeps the value of self otherwise; on the resources
\* of the test it gives {t1: v, t2: w, t3: v, t4: w}.
C3_MergeThreeCases ==
    rcall.op = "merge" =>
        /\ \A k \in DOMAIN rcall.other :
              /\ k \in DOMAIN r1
              /\ r1[k] = IF k \notin DOMAIN rcall.self THEN rcall.other[k]
                         ELSE IF rcall.self[k] = <<>> THEN rcall.other[k]
                         ELSE rcall.self[k]
        /\ (rcall.self = MergeExampleSelf /\ rcall.other = MergeExampleOther)
              => r1 = MergeExampleResult

\* C3 at work: the resources of the test have been merged
C3_Witness ==
    /\ rcall.op = "merge"
    /\ rcall.self = MergeExampleSelf
    /\ rcall.other = MergeExampleOther

UniqueKeys(entries) ==
    \A i, j \in 1..Len(entries) : entries[i].key = entries[j].key => i = j

\* C4: no two entries of a builder, or of a TraceState it builds, have the same key.
C4_KeysUnique ==
    /\ UniqueKeys(ts.entries)
    /\ builder # None => UniqueKeys(Pending(builder[1]))
    /\ built # None => UniqueKeys(built[1].entries)

\* C4 at work: a builder over a parent has set a key the parent holds, and holds
\* all of the parent's keys once
C4_Witness ==
    /\ call.op = "set"
    /\ builder # None
    /\ builder[1].parent # None
    /\ Len(ts.entries) >= 2
    /\ \E i \in 1..Len(ts.entries) : ts.entries[i].key = call.key
    /\ Len(builder[1].entries[1]) = Len(ts.entries)

\* C5: build() fails, without truncating, when the builder holds more than 32
\* entries; a TraceState that build() returns has at most 32 entries.
C5_BuildEnforcesCap ==
    [][call'.op = "build" =>
          /\ Len(Pending(builder[1])) > 32 => (call'.panic /\ built' = None)
          /\ built' # None => Len(built'[1].entries) <= 32]_vars

\* C5 at work: build() has failed
C5_Witness ==
    /\ call.op = "build"
    /\ call.panic

HasChar(s, chars) == \E i \in 1..Len(s) : s[i] \in chars

\* C6: validate_value fails on every value that contains ',' or '='.
C6_ValueRejectsCommaEquals ==
    (vfn = "validate_value" /\ HasChar(vin, {44, 61})) => ~vres.ok

NonAsciiOrControl == {c \in Alphabet : c > 127 \/ c < 32 \/ c = 127}

\* C7: validate_key and validate_value fail for any string that contains a
\* non-ASCII character or an ASCII control character.
C7_RejectsNonAsciiAndControl ==
    (vfn \in {"validate_key", "validate_value"} /\ HasChar(vin, NonAsciiOrControl))
        => ~vres.ok

KeyGrammar(s) ==
    /\ Len(s) >= 1
    /\ Len(s) <= 255
    /\ s[1] \in 97..122
    /\ \A i \in 1..Len(s) : s[i] \in (97..122) \cup (48..57) \cup {95, 45, 42, 47}

C9_ContextValidIffBothNonZero ==
    (id_ret # None /\ id_ret[1].fn = "SpanContext::is_valid") =>
        /\ id_ret[1].ret <=> (NonZero(ctx[1].trace_id) /\ NonZero(ctx[1].span_id))
        /\ ctx[1] = SpanContext_INVALID => ~id_ret[1].ret

\* C10: set, remove and build leave the parent TraceState as it is, and the first
\* mutation of a builder over a parent applies to a copy of the parent's entries.
C10_ParentUntouched ==
    [][/\ call'.op \in {"set", "remove", "build"} => ts' = ts
       /\ (/\ call'.op \in {"set", "remove"}
           /\ ~call'.panic
           /\ builder[1].parent # None
           /\ builder[1].entries = None)
          => builder'[1].entries[1] =
                IF call'.op = "set"
                THEN <<[key |-> call'.key, value |-> call'.value]>>
                         \o Without(ts.entries, call'.key)
                ELSE Without(ts.entries, call'.key)]_vars

\* C10 at work: a builder over a parent with entries has made its first mutation
\* and now differs from the parent
C10_Witness ==
    /\ call.op \in {"set", "remove"}
    /\ builder # None
    /\ builder[1].parent # None
    /\ ts.entries # <<>>
    /\ builder[1].entries # None
    /\ builder[1].entries[1] # ts.entries

\* the keys on which two resources hold different non-empty values
Conflicts(x, y) ==
    {k \in DOMAIN x \cap DOMAIN y : x[k] # <<>> /\ y[k] # <<>> /\ x[k] # y[k]}

\* C11: merge is not commutative: whenever a and b hold different non-empty values
\* for a key, a merged with b keeps a's value, b merged with a keeps b's value, and
\* the two results differ.
C11_MergeNotCommutative ==
    (m_out.ab # None /\ m_out.ba # None) =>
        \A k \in Conflicts(m_in.a, m_in.b) :
            /\ m_out.ab[1] # m_out.ba[1]
            /\ m_out.ab[1][k] = m_in.a[k]
            /\ m_out.ba[1][k] = m_in.b[k]
C11_Witness ==
    /\ m_out.ab # None
    /\ m_out.ba # None
    /\ Conflicts(m_in.a, m_in.b) # {}
    /\ m_out.ab[1] # m_out.ba[1]

Printable(s) == \A i \in 1..Len(s) : s[i] \in 32..126

\* C13: Resource::create accepts keys and values of printable ASCII of every length
\* below 256 bytes, 254 and 255 included, and fails for keys or values of 256 bytes
\* or more.
C13_CreateLengthLimit256 ==
    /\ (vfn = "create_key" /\ Printable(vin) /\ Len(vin) >= 1 /\ Len(vin) < 256) => vres.ok
    /\ (vfn = "create_value" /\ Printable(vin) /\ Len(vin) < 256) => vres.ok
    /\ (vfn \in {"create_key", "create_value"} /\ Len(vin) >= 256) => ~vres.ok

\* C14: Resource::create fails when any label key is the empty string.
C14_CreateRejectsEmptyKey ==
    (vfn = "create_key" /\ vin = <<>>) => ~vres.ok

\* C15: validate_and_convert_str fails for every string with a non-ASCII or an ASCII
\* control character, and a Resource::create call with one such label fails as a
\* whole: no Resource is produced.
C15_InvalidLabelFailsWhole ==
    (/\ vfn \in {"validate_and_convert_str", "create_key", "create_value"}
     /\ HasChar(vin, NonAsciiOrControl)) => vres = Panic
C15_Witness ==
    /\ vfn = "create_value"
    /\ HasChar(vin, {233})
    /\ ~HasChar(vin, {10, 127})
    /\ vres = Panic

EntryGrammar(s) ==
    /\ \A i \in 1..Len(s) : s[i] \in 32..126
    /\ Len(s) < 255

OriginKeys(tag) == {k \in DOMAIN origin : origin[k].metadata.entry_ttl.tag = tag}

\* C17: an entry created with Propagation(n) is at the node reached after h hops
\* exactly when h <= n, and is there with Propagation(n - h) and its key and value;
\* so Propagation(1) is present after one hop and absent after the second.
C17_PropagationCountsHops ==
    wire = None =>
        \A k \in OriginKeys("Propagation") :
            LET n == origin[k].metadata.entry_ttl.n
            IN  /\ k \in DOMAIN dctx <=> hops <= n
                /\ k \in DOMAIN dctx =>
                      dctx[k] = Entry_new(origin[k].key, origin[k].value,
                                          EntryMetadata_new(Propagation(n - hops)))
C17_Witness ==
    /\ wire = None
    /\ hops = 2
    /\ \E k \in OriginKeys("Propagation") :
          /\ origin[k].metadata.entry_ttl.n = 1
          /\ k \notin DOMAIN dctx

\* C18: an entry created with UnlimitedPropagation is in every payload and at every
\* node, with its key, value and TTL unchanged, after any number of hops.
C18_UnlimitedSurvives ==
    \A k \in OriginKeys("UnlimitedPropagation") :
        /\ k \in DOMAIN dctx
        /\ dctx[k] = origin[k]
        /\ wire # None =>
              <<origin[k].key, origin[k].value, UnlimitedPropagation>> \in wire[1]
C18_Witness ==
    /\ hops = MaxHops
    /\ \E k \in OriginKeys("UnlimitedPropagation") : dctx[k] = origin[k]

\* C19: an entry created with NoPropagation is in the context at its origin, in no
\* payload, and at no node reached by a hop.
C19_NoPropagationStaysHome ==
    \A k \in OriginKeys("NoPropagation") :
        /\ hops = 0 => (k \in DOMAIN dctx /\ dctx[k] = origin[k])
        /\ wire # None => \A t \in wire[1] : t[1] # k
        /\ hops >= 1 => k \notin DOMAIN dctx
C19_Witness ==
    /\ hops = 0
    /\ wire # None
    /\ \E k \in OriginKeys("NoPropagation") : \A t \in wire[1] : t[1] # k

\* C20: TraceId::generate_random_id and SpanId::generate_random_id never return the
\* all-zero identifier, whatever the random source draws and however many calls
\* were made before.
C20_GeneratedNonZero ==
    gen # None => NonZero(gen[1].id)
C20_Witness ==
    /\ gen # None
    /\ gen[1].fn = "TraceId"
    /\ gen[1].calls = MaxGenCalls
    /\ gen[1].id = u_one(8)

\* C21: generate_random_id can return every non-zero value of the identifier's
\* width, the all-ones maximum included.
C21_SamplesWholeNonZeroRange ==
    gen # None =>
        /\ \A x \in Samples(8) : NonZero(x) => x \in TraceId_generate_random_id
        /\ \A x \in Samples(4) : NonZero(x) => x \in SpanId_generate_random_id

\* C22: from_bytes(b).to_bytes() = b for every array b of 16 bytes (TraceId) and of
\* 8 bytes (SpanId); from_bytes accepts every byte pattern and reads the bytes
\* most significant first.
C22_BytesRoundTrip ==
    /\ b_id # None =>
          /\ Len(b_id[1].id) * 2 = Len(b_src)
          /\ \A j \in DOMAIN b_id[1].id :
                b_id[1].id[j] = 256 * b_src[2 * j - 1] + b_src[2 * j]
    /\ (b_ret # None /\ b_ret[1].fn = "to_bytes") => b_ret[1].ret = b_src
C22_Witness ==
    /\ b_ret # None
    /\ b_ret[1].fn = "to_bytes"
    /\ Len(b_src) = 16
    /\ b_src[1] = 0
    /\ b_src[16] # 0
    /\ b_ret[1].ret = b_src

LowerHex == (48..57) \cup (97..102)

\* C23: as_hex returns lowercase hexadecimal digits, two for each byte of the
\* identifier whatever its value: 16 characters for every SpanId and one common
\* length for every TraceId.
C23_AsHexFullWidth ==
    (b_ret # None /\ b_ret[1].fn = "as_hex") =>
        /\ \A i \in DOMAIN b_ret[1].ret : b_ret[1].ret[i] \in LowerHex
        /\ Len(b_ret[1].ret) = 2 * Len(b_src)

IndexOf(entries, key) ==
    IF \E i \in 1..Len(entries) : entries[i].key = key
    THEN CHOOSE i \in 1..Len(entries) : entries[i].key = key
    ELSE 0

\* C25: remove(k) fails exactly when k violates the key grammar; a successful
\* remove(k) yields a list without an entry for k whose other entries are the
\* previous ones in their previous order, the previous list itself when k was not
\* in it.
C25_RemoveDropsOnlyKey ==
    [][call'.op = "remove" =>
          LET old == Pending(builder[1])
              at == IndexOf(old, call'.key)
          IN  /\ call'.panic <=> ~KeyGrammar(call'.key)
              /\ ~call'.panic =>
                    LET new == builder'[1].entries[1]
                    IN  /\ \A i \in 1..Len(new) : new[i].key # call'.key
                        /\ at = 0 => new = old
                        /\ at > 0 => new = SubSeq(old, 1, at - 1)
                                              \o SubSeq(old, at + 1, Len(old))]_vars

\* C25 at work: remove("b") has taken the middle entry out of three
C25_Witness ==
    /\ call.op = "remove"
    /\ call.key = <<98>>
    /\ builder # None
    /\ builder[1].entries # None
    /\ Len(builder[1].entries[1]) = 2
    /\ builder[1].entries[1][1].key = <<99>>
    /\ builder[1].entries[1][2].key = <<97>>

\* what get(k) must return after build(), by the calls made on the builder
Expected(k) ==
    IF k \in DOMAIN hist.ops
    THEN IF hist.ops[k].op = "set" THEN Some(Entry(k, hist.ops[k].value)) ELSE None
    ELSE IF hist.parent # None THEN get(ts, k)
    ELSE None

KeysOf(entries) == {entries[i].key : i \in 1..Len(entries)}

\* C26: after any sequence of set and remove calls and build(), get(k) returns the
\* entry of the last set(k, _) when no remove(k) followed it, the parent's entry for
\* k when the builder never touched k, and None when k was last removed or never
\* present.
C26_GetSeesLastCall ==
    built # None =>
        \A k \in TsKeys \cup KeysOf(ts.entries) \cup KeysOf(built[1].entries) :
            get(built[1], k) = Expected(k)

\* C26 at work: over a parent holding "a" and "b", "a" was removed, "c" was set and
\* "b" was left alone
C26_Witness ==
    /\ built # None
    /\ hist.parent # None
    /\ DOMAIN hist.ops = {<<97>>, <<99>>}
    /\ hist.ops[<<97>>].op = "remove"
    /\ hist.ops[<<99>>].op = "set"
    /\ get(ts, <<97>>) # None
    /\ get(built[1], <<97>>) = None
    /\ get(built[1], <<98>>) = get(ts, <<98>>)
    /\ get(ts, <<98>>) # None
    /\ get(built[1], <<99>>) = Some(Entry(<<99>>, hist.ops[<<99>>].value))

\* C27: the builder that copies its parent's entries at its first mutation stands
\* for the same entries, and builds the same TraceState, as one that clones them
\* when it is created; built without any mutation, the TraceState equals the parent,
\* or the empty TraceState when there is no parent.
C27_LazyCopyIsEagerCopy ==
    /\ builder # None => Pending(builder[1]) = hist.eager
    /\ built # None => TraceStateNew(hist.eager) = Ok(built[1])
    /\ (call.op = "build" /\ call.panic) => ~TraceStateNew(hist.eager).ok
    /\ (built # None /\ DOMAIN hist.ops = {}) =>
          built[1] = IF hist.parent # None THEN ts ELSE TraceStateDefault

\* C27 at work: a builder over a parent with entries was mutated and built
C27_Witness ==
    /\ built # None
    /\ hist.parent # None
    /\ ts.entries # <<>>
    /\ DOMAIN hist.ops # {}
    /\ built[1].entries = hist.eager
    /\ \E k \in KeysOf(ts.entries) : k \notin DOMAIN hist.ops /\ get(built[1], k) = get(ts, k)

\* one merge: no key lost, the keys of both sides and no other present, and every
\* non-empty value of the receiver kept
GrowsAndSettles(before, other, after) ==
    /\ DOMAIN after = DOMAIN before \cup DOMAIN other
    /\ \A k \in DOMAIN before : before[k] # <<>> => after[k] = before[k]

\* C28: over the merges a.merge(b) and then .merge(c) on the same resource, no label
\* key is ever removed, a label with a non-empty value never changes again, and the
\* key set after each merge is the union of those of the receiver and the argument.
C28_LabelsGrowAndSettle ==
    /\ m_out.ab # None => GrowsAndSettles(m_in.a, m_in.b, m_out.ab[1])
    /\ m_out.ab_c # None =>
          /\ GrowsAndSettles(m_out.ab[1], m_in.c, m_out.ab_c[1])
          /\ DOMAIN m_in.a \subseteq DOMAIN m_out.ab_c[1]
          /\ \A k \in DOMAIN m_in.a : m_in.a[k] # <<>> => m_out.ab_c[1][k] = m_in.a[k]

\* C28 at work: a label set in a survived two merges that carried other values for
\* it, and a key came in with the second merge
C28_Witness ==
    /\ m_out.ab_c # None
    /\ Conflicts(m_in.a, m_in.b) \cap Conflicts(m_in.a, m_in.c) = {<<116, 49>>}
    /\ m_out.ab_c[1][<<116, 49>>] = m_in.a[<<116, 49>>]
    /\ <<116, 50>> \notin DOMAIN m_in.a
    /\ <<116, 50>> \notin DOMAIN m_in.b
    /\ <<116, 50>> \in DOMAIN m_out.ab_c[1]

\* C29: merging b a second time changes nothing, merging the empty resource into a
\* leaves a as it is, and merging a into the empty resource gives a's labels.
C29_MergeIdempotentWithIdentity ==
    /\ m_out.ab_b # None => m_out.ab_b[1] = m_out.ab[1]
    /\ m_out.a_e # None => m_out.a_e[1] = m_in.a
    /\ m_out.e_a # None => m_out.e_a[1] = m_in.a

\* C29 at work: all three done on an a with an empty-valued label and a b that
\* fills it
C29_Witness ==
    /\ m_out.e_a # None
    /\ \E k \in DOMAIN m_in.a \cap DOMAIN m_in.b : m_in.a[k] = <<>> /\ m_in.b[k] # <<>>
    /\ \E k \in DOMAIN m_in.a : m_in.a[k] # <<>>
    /\ m_out.ab_b[1] = m_out.ab[1]
    /\ m_out.ab[1] # m_in.a
    /\ m_out.e_a[1] = m_in.a

\* C30: only build() checks the cap of 32 entries: set and remove with valid
\* arguments succeed whatever the number of entries, a builder may stand for more
\* than 32 entries, and build() succeeds exactly when at most 32 entries are left,
\* also after the builder has held more.
C30_CapCheckedOnlyByBuild ==
    [][/\ (call'.op = "set" /\ KeyGrammar(call'.key) /\ Len(call'.value) <= 255)
            => ~call'.panic
       /\ (call'.op = "remove" /\ KeyGrammar(call'.key)) => ~call'.panic
       /\ call'.op = "build" =>
             /\ call'.panic <=> Len(Pending(builder[1])) > 32
             /\ ~call'.panic => built' = Some([entries |-> Pending(builder[1])])]_vars

\* C30 at work: a builder that has held more than 32 entries was cut back and built
C30_Witness ==
    /\ call.op = "build"
    /\ ~call.panic
    /\ built # None
    /\ hist.over
    /\ Len(built[1].entries) <= 32

====
